---------------------------- MODULE Spec2Model ----------------------------
(***************************************************************************)
(* A model of orion's "hazardous" ChaCha20 stream cipher                   *)
(* (src/hazardous/chacha.rs) and of the secret/public newtype macros       *)
(* (src/typedefs.rs).                                                      *)
(*                                                                         *)
(* Numbers.  TLC's integers are 32-bit signed, so a Rust u32 is a pair     *)
(* <<hi, lo>> of 16-bit halves and a 64-bit usize is <<d3, d2, d1, d0>>,   *)
(* most significant 16-bit digit first.  Buffer lengths and indices of     *)
(* buffers the model really holds are ordinary naturals.                   *)
(*                                                                         *)
(* Byte buffers are sequences over 0..255 (Rust index i is TLA+ index      *)
(* i + 1); the 16-word cipher matrix is a function on 0..15.               *)
(***************************************************************************)
EXTENDS Integers, Sequences, FiniteSets, TLC

VARIABLES
    \* ---- one call of chacha20_encrypt / chacha20_decrypt ----
    target_endian,    \* "little" | "big": byte order of the build target
    entry,            \* "none" | "encrypt" | "decrypt" | "decrypt_of_encrypt"
    key,              \* argument key: &[u8]
    nonce,            \* argument nonce: &[u8]
    initial_counter,  \* argument initial_counter: u32
    plaintext,        \* the input buffer of the call
    dst_before,       \* the output buffer as the caller passed it
    outcome,          \* what the call did, see chacha20_encrypt below
    message,          \* the message first encrypted (decrypt_of_encrypt)
    \* ---- the counter loop of chacha20_encrypt on inputs of any size ----
    cnt_pc,           \* "idle" | "loop" | "ok" | "panic"
    cnt_initial,      \* initial_counter: u32
    cnt_chunks,       \* number of 64-byte chunks of the input: usize
    cnt_index,        \* `counter` of enumerate(): chunks finished so far, usize
    cnt_first,        \* chunk_counter of chunk 0
    cnt_last,         \* chunk_counter of the chunk processed last
    \* ---- one operation on a value of a typedefs.rs newtype ----
    ty_call,          \* record of the operation, its inputs and its result
    \* ---- a CShake state and the calls made on it ----
    cs,               \* the CShake struct ([tag |-> "none"] before init)
    cs_call,          \* the last call: its name, arguments and result
    cs_hist,          \* history: calls made, finalize called since init/reset,
                      \* and the state as init returned it
    \* ---- one call of a method of the ChaCha20 InternalState ----
    state_call        \* record of the method, its arguments and its result

vars == <<target_endian, entry, key, nonce, initial_counter, plaintext,
          dst_before, outcome, message,
          cnt_pc, cnt_initial, cnt_chunks, cnt_index, cnt_first, cnt_last,
          ty_call, cs, cs_call, cs_hist, state_call>>

chacha_vars == <<target_endian, entry, key, nonce, initial_counter, plaintext,
                 dst_before, outcome, message>>
counter_vars == <<cnt_pc, cnt_initial, cnt_chunks, cnt_index, cnt_first, cnt_last>>
types_vars == <<ty_call>>
cshake_vars == <<cs, cs_call, cs_hist>>
state_vars == <<state_call>>

-----------------------------------------------------------------------------
(* Bounds of the model. *)

\* Messages are up to MaxBlocks full 64-byte blocks, plus one byte.
MaxBlocks == 2
\* Variable-size (heap) values are built from slices of up to MaxVarLen bytes.
MaxVarLen == 3
\* The counter loop is followed chunk by chunk for the first StepWindow chunks
\* and from StepWindow chunks before index 2^32 on; the chunks between are
\* taken in one step.
StepWindow == 3

-----------------------------------------------------------------------------
(* Machine arithmetic. *)

Radix == 256 * 256

Min(a, b) == IF a < b THEN a ELSE b

RECURSIVE XorBits(_, _, _)
XorBits(a, b, n) ==
    IF n = 0 THEN 0
    ELSE (((a % 2) + (b % 2)) % 2) + 2 * XorBits(a \div 2, b \div 2, n - 1)

XorNibble == [a \in 0..15 |-> [b \in 0..15 |-> XorBits(a, b, 4)]]

\* u8 ^ u8
XorByte(a, b) ==
    XorNibble[a % 16][b % 16] + 16 * XorNibble[a \div 16][b \div 16]

Xor16(a, b) == 256 * XorByte(a \div 256, b \div 256) + XorByte(a % 256, b % 256)

\* u32 ^ u32
Xor32(a, b) == <<Xor16(a[1], b[1]), Xor16(a[2], b[2])>>

\* u32::wrapping_add
wrapping_add(a, b) ==
    LET lo == a[2] + b[2]
    IN <<(a[1] + b[1] + (lo \div Radix)) % Radix, lo % Radix>>

\* u32::checked_add: None when the sum does not fit in 32 bits.
checked_add(a, b) ==
    LET lo == a[2] + b[2]
        hi == a[1] + b[1] + (lo \div Radix)
    IN IF hi >= Radix THEN [tag |-> "None"]
       ELSE [tag |-> "Some", val |-> <<hi, lo % Radix>>]

Pow2(n) ==
    CASE n = 0 -> 1 [] n = 1 -> 2 [] n = 2 -> 4 [] n = 3 -> 8
      [] n = 4 -> 16 [] n = 5 -> 32 [] n = 6 -> 64 [] n = 7 -> 128
      [] n = 8 -> 256 [] n = 9 -> 512 [] n = 10 -> 1024 [] n = 11 -> 2048
      [] n = 12 -> 4096 [] n = 13 -> 8192 [] n = 14 -> 16384
      [] n = 15 -> 32768 [] n = 16 -> 65536

\* u32::rotate_left(n), 0 < n < 32
rotate_left(v, n) ==
    LET w == IF n >= 16 THEN <<v[2], v[1]>> ELSE v
        m == IF n >= 16 THEN n - 16 ELSE n
        p == Pow2(m)
        q == Pow2(16 - m)
    IN <<((w[1] * p) % Radix) + (w[2] \div q),
         ((w[2] * p) % Radix) + (w[1] \div q)>>

\* u32::swap_bytes
swap_bytes(w) ==
    <<(w[2] % 256) * 256 + (w[2] \div 256), (w[1] % 256) * 256 + (w[1] \div 256)>>

\* u32::to_le: the identity on a little-endian target, a byte swap on a
\* big-endian one.
to_le(w, endian) == IF endian = "little" THEN w ELSE swap_bytes(w)

\* byteorder::LittleEndian::read_u32 of a 4-byte slice
read_u32(b) == <<b[4] * 256 + b[3], b[2] * 256 + b[1]>>

\* byteorder::LittleEndian::write_u32_into(&[w], dst) for a 4-byte dst
write_u32(w) == <<w[2] % 256, w[2] \div 256, w[1] % 256, w[1] \div 256>>

\* A small natural as a u32 / as a usize.
U32(n) == <<n \div Radix, n % Radix>>
USize(n) == <<0, 0, n \div Radix, n % Radix>>

\* `x as u32` of a usize: the low 32 bits.
as_u32(x) == <<x[3], x[4]>>
\* `x as usize` of a u32.
as_usize(w) == <<0, 0, w[1], w[2]>>

\* usize + usize as a mathematical sum (values here stay far below 2^64).
USizeAdd(a, b) ==
    LET s4 == a[4] + b[4]
        s3 == a[3] + b[3] + (s4 \div Radix)
        s2 == a[2] + b[2] + (s3 \div Radix)
        s1 == a[1] + b[1] + (s2 \div Radix)
    IN <<s1, s2 % Radix, s3 % Radix, s4 % Radix>>

USizeLess(a, b) ==
    \E i \in 1..4 : a[i] < b[i] /\ \A j \in 1..(i - 1) : a[j] = b[j]

ZeroBytes(n) == [i \in 1..n |-> 0]

\* slice.chunks(size): consecutive pieces of `size` elements, the last one
\* possibly shorter; no piece for an empty slice.
Chunks(s, size) ==
    [c \in 1..((Len(s) + size - 1) \div size) |->
        SubSeq(s, (c - 1) * size + 1, Min(c * size, Len(s)))]

-----------------------------------------------------------------------------
(* InternalState: the 16-word matrix, chacha.rs lines 28-124. *)

ZeroState == [i \in 0..15 |-> <<0, 0>>]

round(buffer, x, y, z, n_bit_rotation) ==
    LET b1 == [buffer EXCEPT ![x] = wrapping_add(buffer[x], buffer[z])]
    IN [b1 EXCEPT ![y] = rotate_left(Xor32(b1[y], b1[x]), n_bit_rotation)]

\* A mutant of quarter_round: the rotations by 8 and by 7 exchanged.
QuarterRoundMutant(buffer, x, y, z, w) ==
    round(round(round(round(buffer, x, w, y, 16), z, y, w, 12), x, w, y, 7),
          z, y, w, 8)

quarter_round(buffer, x, y, z, w) ==
    round(round(round(round(buffer, x, w, y, 16), z, y, w, 12), x, w, y, 8),
          z, y, w, 7)

process_inner_block(buffer) ==
    LET c1 == quarter_round(buffer, 0, 4, 8, 12)
        c2 == quarter_round(c1, 1, 5, 9, 13)
        c3 == quarter_round(c2, 2, 6, 10, 14)
        c4 == quarter_round(c3, 3, 7, 11, 15)
        d1 == quarter_round(c4, 0, 5, 10, 15)
        d2 == quarter_round(d1, 1, 6, 11, 12)
        d3 == quarter_round(d2, 2, 7, 8, 13)
    IN quarter_round(d3, 3, 4, 9, 14)

\* `for _ in 0..n { self.process_inner_block() }`.  Written with a
\* continuation whose test on DOMAIN makes TLC finish one double round
\* before it starts the next.
RECURSIVE inner_blocks(_, _)
RECURSIVE inner_blocks_rest(_, _)
inner_blocks(buffer, n) ==
    IF n = 0 THEN buffer
    ELSE inner_blocks_rest(process_inner_block(buffer), n - 1)
inner_blocks_rest(buffer, n) ==
    IF DOMAIN buffer = 0..15 THEN inner_blocks(buffer, n) ELSE buffer

\* init_chacha20_state: Err, buffer untouched, unless the key is 32 bytes and
\* the nonce 12; else every word is set.
init_chacha20_state(buffer, k, n, block_count, endian) ==
    IF ~(Len(k) = 32) THEN [tag |-> "Err", buffer |-> buffer]
    ELSE IF ~(Len(n) = 12) THEN [tag |-> "Err", buffer |-> buffer]
    ELSE [tag |-> "Ok",
          buffer |->
            [i \in 0..15 |->
                CASE i = 0 -> <<24944, 30821>>      \* 0x61707865
                  [] i = 1 -> <<13088, 25710>>      \* 0x3320646e
                  [] i = 2 -> <<31074, 11570>>      \* 0x79622d32
                  [] i = 3 -> <<27424, 25972>>      \* 0x6b206574
                  [] i \in 4..11 -> read_u32(Chunks(k, 4)[i - 3])
                  [] i = 12 -> to_le(block_count, endian)
                  [] i = 13 -> read_u32(SubSeq(n, 1, 4))
                  [] i = 14 -> read_u32(SubSeq(n, 5, 8))
                  [] i = 15 -> read_u32(SubSeq(n, 9, 12))]]

\* The feed-forward of chacha20_block: *word = word.wrapping_add(original).
add_original_state(buffer, original_state) ==
    [idx \in 0..15 |-> wrapping_add(buffer[idx], original_state[idx])]

\* chacha20_block: unwraps init_chacha20_state (a panic on Err), snapshots
\* the state, runs 10 double rounds and adds the snapshot back.
chacha20_block(buffer, k, n, block_count, endian) ==
    LET init == init_chacha20_state(buffer, k, n, block_count, endian)
    IN IF init.tag = "Err" THEN [tag |-> "Panic", buffer |-> buffer]
       ELSE [tag |-> "Ok",
             buffer |-> add_original_state(inner_blocks(init.buffer, 10),
                                           init.buffer)]

\* A mutant of serialize_state: any dst_block of at least 64 bytes is
\* accepted and its first 64 bytes are written.
SerializeStateMutant(buffer, dst_block) ==
    IF Len(dst_block) < 64 THEN [tag |-> "Err", dst_block |-> dst_block]
    ELSE [tag |-> "Ok",
          dst_block |-> [j \in 1..Len(dst_block) |->
                            IF j > 64 THEN dst_block[j]
                            ELSE write_u32(buffer[(j - 1) \div 4])
                                          [((j - 1) % 4) + 1]]]

\* serialize_state: Err unless dst_block is 64 bytes; else the 16 words,
\* each as 4 little-endian bytes.
serialize_state(buffer, dst_block) ==
    IF ~(Len(dst_block) = 64) THEN [tag |-> "Err", dst_block |-> dst_block]
    ELSE [tag |-> "Ok",
          dst_block |-> [j \in 1..64 |->
                            write_u32(buffer[(j - 1) \div 4])[((j - 1) % 4) + 1]]]

-----------------------------------------------------------------------------
(* chacha20_encrypt / chacha20_decrypt, chacha.rs lines 126-174. *)

\* The chunk counter of the loop: `counter` is the usize index that
\* enumerate() yields, cast to u32 and added to initial_counter.
chunk_counter_of(ic, counter) == checked_add(ic, as_u32(counter))

\* The bytes of dst with chunk number c (1-based, 64-byte chunks) replaced.
WriteChunk(dst, c, bytes) ==
    [j \in 1..Len(dst) |->
        IF (c - 1) * 64 < j /\ j <= (c - 1) * 64 + Len(bytes)
        THEN bytes[j - (c - 1) * 64] ELSE dst[j]]

\* A mutant of xor_into_keystream: `|=` typed for `^=` (a | b is
\* (a ^ b) + (a & b), and a + b is (a ^ b) + 2 * (a & b)).
OrIntoKeystreamMutant(ks_byte, itm) ==
    XorByte(ks_byte, itm) + ((ks_byte + itm - XorByte(ks_byte, itm)) \div 2)

\* keystream_block[idx] ^= *itm
xor_into_keystream(ks_byte, itm) == XorByte(ks_byte, itm)

\* The loop body after chacha20_block: serialize the block into the scratch
\* block, XOR the plaintext chunk into it, copy it to the output chunk.
\* st.result is "Running" while the loop goes on and "Panic" once an unwrap
\* or copy_from_slice has panicked.
encrypt_with_block(st, c, plaintext_block, ciphertext_block, chunk_counter, block) ==
    IF block.tag = "Panic"
    THEN [st EXCEPT !.result = "Panic"]
    ELSE
    LET ser == serialize_state(block.buffer, st.keystream_block)
        xored == [j \in 1..64 |->
                     IF j <= Len(plaintext_block)
                     THEN xor_into_keystream(ser.dst_block[j], plaintext_block[j])
                     ELSE ser.dst_block[j]]
    IN IF ser.tag = "Err"
       THEN [st EXCEPT !.result = "Panic", !.chacha_state = block.buffer]
       ELSE IF Len(ciphertext_block) # Len(plaintext_block)
       THEN \* copy_from_slice panics on slices of different lengths
            [st EXCEPT !.result = "Panic",
                       !.chacha_state = block.buffer,
                       !.keystream_block = xored]
       ELSE [st EXCEPT
               !.chacha_state = block.buffer,
               !.keystream_block = xored,
               !.dst = WriteChunk(st.dst, c,
                           SubSeq(xored, 1, Len(plaintext_block))),
               !.chunks = Append(st.chunks,
                              [chunk_counter |-> chunk_counter,
                               keystream |-> ser.dst_block,
                               scratch_after |-> xored])]

\* The loop body for chunk number c (1-based; enumerate() yields c - 1), from
\* the locals in st.
encrypt_chunk(k, n, ic, pt_chunks, ct_chunks, c, st, endian) ==
    LET chunk_counter == chunk_counter_of(ic, USize(c - 1))
    IN IF chunk_counter.tag = "None"
       THEN [st EXCEPT !.result = "Panic"]
       ELSE encrypt_with_block(st, c, pt_chunks[c], ct_chunks[c],
                chunk_counter.val,
                chacha20_block(st.chacha_state, k, n, chunk_counter.val, endian))

\* The for loop over plaintext.chunks(64).zip(dst_ciphertext.chunks_mut(64)),
\* from chunk number c on.
RECURSIVE encrypt_loop(_, _, _, _, _, _, _, _)
RECURSIVE encrypt_loop_rest(_, _, _, _, _, _, _, _)
encrypt_loop(k, n, ic, pt_chunks, ct_chunks, c, st, endian) ==
    IF c > Min(Len(pt_chunks), Len(ct_chunks))
    THEN st
    ELSE encrypt_loop_rest(k, n, ic, pt_chunks, ct_chunks, c + 1,
             encrypt_chunk(k, n, ic, pt_chunks, ct_chunks, c, st, endian),
             endian)
encrypt_loop_rest(k, n, ic, pt_chunks, ct_chunks, c, st, endian) ==
    IF st.result = "Panic" THEN st
    ELSE encrypt_loop(k, n, ic, pt_chunks, ct_chunks, c, st, endian)

\* Leaving the frame of chacha20_encrypt with the locals in st.
encrypt_exit(st) ==
    IF st.result = "Panic"
    THEN \* unwinding drops chacha_state (Drop zeroes it); the scratch block
         \* is a plain array and keeps its content
         [st EXCEPT !.chacha_state = ZeroState]
    ELSE \* zero(&mut keystream_block); Ok(()); chacha_state is dropped
         [st EXCEPT !.result = "Ok",
                    !.keystream_block = ZeroBytes(64),
                    !.chacha_state = ZeroState]

\* A mutant of LengthsDiffer: the length check left out.
LengthsDifferMutant(pt, dst) == FALSE

\* plaintext.len() != dst_ciphertext.len()
LengthsDiffer(pt, dst) == Len(pt) # Len(dst)

\* chacha20_encrypt.  The value is what the call leaves behind:
\*   result          "Ok" | "Err" (returned) | "Panic" (the call unwinds)
\*   dst             the caller's output buffer after the call
\*   keystream_block the 64-byte scratch block when the frame is left
\*   chacha_state    the matrix when the frame is left (Drop zeroes it)
\*   chunks          per chunk written: the counter used, the keystream
\*                   block, and the scratch block after the chunk
chacha20_encrypt(k, n, ic, pt, dst, endian) ==
    IF LengthsDiffer(pt, dst)
    THEN [result |-> "Err", dst |-> dst, keystream_block |-> <<>>,
          chacha_state |-> <<>>, chunks |-> <<>>]
    ELSE encrypt_exit(
            encrypt_loop(k, n, ic, Chunks(pt, 64), Chunks(dst, 64), 1,
                [result |-> "Running", dst |-> dst,
                 keystream_block |-> ZeroBytes(64),
                 chacha_state |-> ZeroState, chunks |-> <<>>],
                endian))

\* A mutant of chacha20_decrypt: a reimplementation that starts the block
\* counter one too high.
DecryptMutant(k, n, ic, ct, dst, endian) ==
    chacha20_encrypt(k, n, wrapping_add(ic, <<0, 1>>), ct, dst, endian)

\* chacha20_decrypt
chacha20_decrypt(k, n, ic, ct, dst, endian) ==
    chacha20_encrypt(k, n, ic, ct, dst, endian)

-----------------------------------------------------------------------------
(* The inputs the calls are made with. *)

KeyZero == ZeroBytes(32)
KeyRfc == [i \in 1..32 |-> i - 1]             \* 00 01 02 .. 1f
KeyShort == ZeroBytes(31)
NonceZero == ZeroBytes(12)
NonceRfc == <<0, 0, 0, 9, 0, 0, 0, 74, 0, 0, 0, 0>>
NonceShort == ZeroBytes(11)

\* Valid keys with valid nonces, and one invalid key, one invalid nonce.
KeyNoncePairs ==
    ({KeyZero, KeyRfc} \X {NonceZero, NonceRfc})
        \cup {<<KeyShort, NonceZero>>, <<KeyRfc, NonceShort>>}

\* 0, 1, 2^32 - 2, 2^32 - 1
InitialCounters == {<<0, 0>>, <<0, 1>>, <<65535, 65534>>, <<65535, 65535>>}

\* 0, 1, and around every block boundary: 63, 64, 65, 127, 128, 129, ...
MessageLengths ==
    {0, 1} \cup UNION {{64 * b - 1, 64 * b, 64 * b + 1} : b \in 1..MaxBlocks}

MessageOf(len) == [i \in 1..len |-> (i * 37 + 11) % 256]

\* The output buffer before the call: filled with 0xAA.
DstOf(len) == [i \in 1..len |-> 170]

-----------------------------------------------------------------------------
(* The calls. *)

ChaChaInit ==
    /\ target_endian \in {"little", "big"}
    /\ entry = "none"
    /\ key = <<>>
    /\ nonce = <<>>
    /\ initial_counter = <<0, 0>>
    /\ plaintext = <<>>
    /\ dst_before = <<>>
    /\ outcome = [result |-> "none"]
    /\ message = <<>>

\* A caller calls chacha20_encrypt; the output buffer has the input's length
\* or one byte more.
Encrypt ==
    /\ entry = "none"
    /\ \E kn \in KeyNoncePairs, ic \in InitialCounters,
          len \in MessageLengths, extra \in {0, 1} :
          /\ entry' = "encrypt"
          /\ key' = kn[1]
          /\ nonce' = kn[2]
          /\ initial_counter' = ic
          /\ plaintext' = MessageOf(len)
          /\ dst_before' = DstOf(len + extra)
          /\ outcome' = chacha20_encrypt(kn[1], kn[2], ic, MessageOf(len),
                                         DstOf(len + extra), target_endian)
    /\ UNCHANGED <<target_endian, message>>

\* A caller calls chacha20_decrypt on the same inputs.
Decrypt ==
    /\ entry = "none"
    /\ \E kn \in KeyNoncePairs, ic \in InitialCounters,
          len \in MessageLengths, extra \in {0, 1} :
          /\ entry' = "decrypt"
          /\ key' = kn[1]
          /\ nonce' = kn[2]
          /\ initial_counter' = ic
          /\ plaintext' = MessageOf(len)
          /\ dst_before' = DstOf(len + extra)
          /\ outcome' = chacha20_decrypt(kn[1], kn[2], ic, MessageOf(len),
                                         DstOf(len + extra), target_endian)
    /\ UNCHANGED <<target_endian, message>>

\* After a successful chacha20_encrypt, the caller decrypts its output with
\* the same key, nonce and initial counter into a fresh buffer.
DecryptOutput ==
    /\ entry = "encrypt"
    /\ outcome.result = "Ok"
    /\ entry' = "decrypt_of_encrypt"
    /\ message' = plaintext
    /\ plaintext' = outcome.dst
    /\ dst_before' = DstOf(Len(outcome.dst))
    /\ outcome' = chacha20_decrypt(key, nonce, initial_counter, outcome.dst,
                                   DstOf(Len(outcome.dst)), target_endian)
    /\ UNCHANGED <<target_endian, key, nonce, initial_counter>>

-----------------------------------------------------------------------------
(* The counter loop of chacha20_encrypt, chacha.rs lines 144-158, on inputs  *)
(* of any number of chunks.  Only the loop's counter arithmetic is kept:     *)
(* which chunk_counter each chunk gets, and whether the unwrap panics.  The  *)
(* key and the nonce are valid, the buffers have equal lengths.              *)

CounterIdle ==
    /\ cnt_pc = "idle"
    /\ cnt_initial = <<0, 0>>
    /\ cnt_chunks = <<0, 0, 0, 0>>
    /\ cnt_index = <<0, 0, 0, 0>>
    /\ cnt_first = <<0, 0>>
    /\ cnt_last = <<0, 0>>

USizeOne == <<0, 0, 0, 1>>

\* 2^32 - 1 - StepWindow: where the loop is followed chunk by chunk again.
NearWrap == <<0, 0, 65535, 65535 - StepWindow>>

\* 0 .. StepWindow chunks, and 2^32 - 1 .. 2^32 + StepWindow chunks (an input
\* of 2^32 chunks is 256 GiB).
ChunkCounts ==
    {USize(c) : c \in 0..StepWindow}
        \cup {<<0, 0, 65535, 65535>>}
        \cup {<<0, 1, 0, c>> : c \in 0..StepWindow}

\* A call with initial counter ic on an input of n chunks enters the loop.
CounterStart ==
    /\ cnt_pc = "idle"
    /\ \E ic \in InitialCounters, n \in ChunkCounts :
          /\ cnt_initial' = ic
          /\ cnt_chunks' = n
    /\ cnt_pc' = "loop"
    /\ UNCHANGED <<cnt_index, cnt_first, cnt_last>>

\* One iteration: line 149, then the chunk is processed with chunk_counter.
CounterStep ==
    /\ cnt_pc = "loop"
    /\ USizeLess(cnt_index, cnt_chunks)
    /\ USizeLess(cnt_index, USize(StepWindow)) \/ ~USizeLess(cnt_index, NearWrap)
    /\ LET chunk_counter == chunk_counter_of(cnt_initial, cnt_index)
       IN IF chunk_counter.tag = "None"
          THEN /\ cnt_pc' = "panic"
               /\ UNCHANGED <<cnt_index, cnt_first, cnt_last>>
          ELSE /\ cnt_pc' = "loop"
               /\ cnt_index' = USizeAdd(cnt_index, USizeOne)
               /\ cnt_last' = chunk_counter.val
               /\ cnt_first' = IF cnt_index = <<0, 0, 0, 0>>
                               THEN chunk_counter.val ELSE cnt_first
    /\ UNCHANGED <<cnt_initial, cnt_chunks>>

\* The iterations cnt_index .. NearWrap - 1 in one step.  All these indices
\* are below 2^32, so `counter as u32` is the index itself and grows with it:
\* no checked_add of the run overflows iff the last one does not.
CounterRun ==
    /\ cnt_pc = "loop"
    /\ USizeLess(cnt_index, NearWrap)
    /\ ~USizeLess(cnt_chunks, NearWrap)
    /\ LET last_index == <<0, 0, 65535, 65535 - StepWindow - 1>>
           chunk_counter == chunk_counter_of(cnt_initial, last_index)
       IN /\ chunk_counter.tag = "Some"
          /\ cnt_index' = NearWrap
          /\ cnt_last' = chunk_counter.val
          /\ cnt_first' = IF cnt_index = <<0, 0, 0, 0>>
                          THEN chunk_counter_of(cnt_initial, cnt_index).val
                          ELSE cnt_first
    /\ UNCHANGED <<cnt_pc, cnt_initial, cnt_chunks>>

\* No chunk is left: zero(&mut keystream_block); Ok(()).
CounterReturn ==
    /\ cnt_pc = "loop"
    /\ cnt_index = cnt_chunks
    /\ cnt_pc' = "ok"
    /\ UNCHANGED <<cnt_initial, cnt_chunks, cnt_index, cnt_first, cnt_last>>

-----------------------------------------------------------------------------
(* The newtypes of typedefs.rs.  A fixed-size value is its byte array; a     *)
(* variable-size value is a Vec<u8>, held as [len, data]: its length as a    *)
(* usize and its bytes (for a vector too long to hold, its first bytes).     *)

\* constants.rs
CHACHA_KEYSIZE == 32
IETF_CHACHA_NONCESIZE == 12
XCHACHA_NONCESIZE == 24
POLY1305_OUTSIZE == 16

\* The fixed-size types the macros are expanded for: `ct` says whether the
\* type gets impl_ct_partialeq_trait (else impl_normal_partialeq_trait).
FixedTypes ==
    { [macro |-> "construct_secret_key", size |-> CHACHA_KEYSIZE, ct |-> TRUE],
      [macro |-> "construct_nonce_no_generator", size |-> IETF_CHACHA_NONCESIZE,
       ct |-> FALSE],
      [macro |-> "construct_nonce_with_generator", size |-> XCHACHA_NONCESIZE,
       ct |-> FALSE],
      [macro |-> "construct_tag", size |-> POLY1305_OUTSIZE, ct |-> TRUE] }

\* The variable-size types.
VariableTypes ==
    { [macro |-> "construct_secret_key_variable_size", ct |-> TRUE],
      [macro |-> "construct_salt_variable_size", ct |-> FALSE],
      [macro |-> "construct_password_variable_size", ct |-> TRUE] }

\* u32::max_value() as usize
U32_MAX_AS_USIZE == <<0, 0, 65535, 65535>>
\* usize::max_value()
USIZE_MAX == <<65535, 65535, 65535, 65535>>

Err == [tag |-> "Err"]
Ok(v) == [tag |-> "Ok", value |-> v]

\* A mutant of func_from_slice: only longer slices are refused, a shorter one
\* is copied to the front of the zeroed array.
FromSliceMutant(size, slice) ==
    IF Len(slice) > size THEN Err
    ELSE Ok([i \in 1..size |-> IF i <= Len(slice) THEN slice[i] ELSE 0])

\* func_from_slice!($name, $size)
func_from_slice(size, slice) ==
    IF Len(slice) # size THEN Err
    ELSE Ok([i \in 1..size |-> slice[i]])

\* Vec::from(slice)
VecFrom(slice) == [len |-> USize(Len(slice)), data |-> slice]

\* A mutant of func_from_slice_variable_size: the is_empty() test left out.
FromSliceVariableMutant(slice) == Ok(VecFrom(slice))

\* func_from_slice_variable_size!($name)
func_from_slice_variable_size(slice) ==
    IF Len(slice) = 0 THEN Err
    ELSE Ok(VecFrom(slice))

\* func_get_length!(): self.value.len(), of an array and of a Vec.
func_get_length(value) == Len(value)
func_get_length_variable(value) == value.len

\* func_unprotected_as_bytes!() / func_as_bytes!(): self.value.as_ref()
func_unprotected_as_bytes(value) == value
func_as_bytes(value) == value
vec_as_ref(value) == value.data

\* util::secure_rand_bytes(&mut value), the CSPRNG collaborator: with
\* rng.ok it fills the buffer (here: the bytes rng.seed, rng.seed + 1, ...),
\* else it returns Err.  The model holds at most MaxVarLen bytes of a vector.
secure_rand_bytes(length, rng) ==
    IF ~rng.ok THEN Err
    ELSE Ok([len |-> length,
             data |-> [i \in 1..(IF USizeLess(length, USize(MaxVarLen))
                                 THEN length[4] ELSE MaxVarLen) |->
                          (rng.seed + i) % 256]])

\* func_generate_variable_size!($name)
func_generate_variable_size(length, rng) ==
    IF USizeLess(length, USizeOne) \/ ~USizeLess(length, U32_MAX_AS_USIZE)
    THEN Err
    ELSE secure_rand_bytes(length, rng)

\* subtle: u8::ct_eq, 1 for equal bytes and 0 otherwise.
u8_ct_eq(a, b) == IF XorByte(a, b) = 0 THEN 1 ELSE 0

\* The conjunction of ai.ct_eq(bi) over the positions lo..hi.  (`&` is
\* associative: the positions are taken in two halves, which keeps the
\* evaluation shallow on long slices.)
RECURSIVE ct_eq_range(_, _, _, _)
ct_eq_range(a, b, lo, hi) ==
    IF lo > hi THEN 1
    ELSE IF lo = hi THEN u8_ct_eq(a[lo], b[lo])
    ELSE ct_eq_range(a, b, lo, (lo + hi) \div 2)
            * ct_eq_range(a, b, ((lo + hi) \div 2) + 1, hi)

\* subtle: the loop of <[u8]>::ct_eq over the zipped slices,
\* x &= ai.ct_eq(bi), from index i on.
ct_eq_fold(a, b, i, x) == x * ct_eq_range(a, b, i, Min(Len(a), Len(b)))

\* subtle: <[u8] as ConstantTimeEq>::ct_eq, as called in
\* impl_ct_partialeq_trait: 0 for slices of different lengths, else the
\* conjunction of the bytes' ct_eq.
ct_eq(a, b) ==
    IF Len(a) # Len(b) THEN 0
    ELSE ct_eq_fold(a, b, 1, 1)

\* A mutant of impl_ct_partialeq_trait: self compared with self.
EqSelfMutant(a_bytes, b_bytes) == ct_eq(a_bytes, a_bytes) = 1

\* impl_ct_partialeq_trait!: PartialEq::eq on the bytes of two values.
impl_ct_partialeq_trait(a_bytes, b_bytes) == ct_eq(a_bytes, b_bytes) = 1

\* impl_normal_partialeq_trait!: &self.as_bytes() == &other.as_bytes()
impl_normal_partialeq_trait(a_bytes, b_bytes) == a_bytes = b_bytes

\* PartialEq::eq of a type.
TypeEq(ty, a_bytes, b_bytes) ==
    IF ty.ct THEN impl_ct_partialeq_trait(a_bytes, b_bytes)
    ELSE impl_normal_partialeq_trait(a_bytes, b_bytes)

-----------------------------------------------------------------------------
(* The inputs the operations on the newtypes are called with. *)

\* len bytes `base`, except byte number pos (1-based; 0: none), which is 255.
SliceOf(len, base, pos) ==
    [i \in 1..len |-> IF i = pos THEN 255 ELSE base]

\* All-0 and all-1 slices, and those with the first or the last byte changed.
SlicesOfLen(len) ==
    {SliceOf(len, base, pos) : base \in {0, 1}, pos \in {0, 1, len}}

\* Lengths 0, 1, size - 1, size and size + 1.
FixedInputs(size) ==
    UNION {SlicesOfLen(len) : len \in {0, 1, size - 1, size, size + 1}}

VariableInputs == UNION {SlicesOfLen(len) : len \in 0..MaxVarLen}

\* 0 .. MaxVarLen, 2^32 - 2, 2^32 - 1, 2^32, usize::MAX
GenerateLengths ==
    {USize(n) : n \in 0..MaxVarLen}
        \cup {<<0, 0, 65535, 65534>>, U32_MAX_AS_USIZE, <<0, 1, 0, 0>>, USIZE_MAX}

Rngs == {[ok |-> TRUE, seed |-> 7], [ok |-> TRUE, seed |-> 200],
         [ok |-> FALSE, seed |-> 0]}

-----------------------------------------------------------------------------
(* The operations on the newtypes.  Constructors and comparisons are pure:   *)
(* each behaviour makes one, from the idle state.                            *)

TypesIdle == ty_call = [op |-> "none"]

\* $name::from_slice(slice) of a fixed-size type.
FromSlice ==
    /\ ty_call.op = "none"
    /\ \E ty \in FixedTypes : \E slice \in FixedInputs(ty.size) :
        ty_call' = [op |-> "from_slice", ty |-> ty, slice |-> slice,
                    res |-> func_from_slice(ty.size, slice)]

\* $name::from_slice(slice) of a variable-size type.
FromSliceVariable ==
    /\ ty_call.op = "none"
    /\ \E ty \in VariableTypes, slice \in VariableInputs :
        ty_call' = [op |-> "from_slice_variable", ty |-> ty, slice |-> slice,
                    res |-> func_from_slice_variable_size(slice)]

\* $name::generate(length) of a variable-size type.
GenerateVariable ==
    /\ ty_call.op = "none"
    /\ \E ty \in VariableTypes, length \in GenerateLengths, rng \in Rngs :
        ty_call' = [op |-> "generate_variable", ty |-> ty, length |-> length,
                    rng |-> rng,
                    res |-> func_generate_variable_size(length, rng)]

\* a == b for two values of a fixed-size type built by from_slice.
EqFixed ==
    /\ ty_call.op = "none"
    /\ \E ty \in FixedTypes :
      \E sa \in SlicesOfLen(ty.size), sb \in SlicesOfLen(ty.size) :
        LET a == func_from_slice(ty.size, sa)
            b == func_from_slice(ty.size, sb)
        IN /\ a.tag = "Ok"
           /\ b.tag = "Ok"
           /\ ty_call' = [op |-> "eq", ty |-> ty, a |-> a.value, b |-> b.value,
                          res |-> TypeEq(ty, func_unprotected_as_bytes(a.value),
                                         func_unprotected_as_bytes(b.value))]

\* a == b for two values of a variable-size type built by from_slice.
EqVariable ==
    /\ ty_call.op = "none"
    /\ \E ty \in VariableTypes, sa \in VariableInputs, sb \in VariableInputs :
        LET a == func_from_slice_variable_size(sa)
            b == func_from_slice_variable_size(sb)
        IN /\ a.tag = "Ok"
           /\ b.tag = "Ok"
           /\ ty_call' = [op |-> "eq", ty |-> ty, a |-> vec_as_ref(a.value),
                          b |-> vec_as_ref(b.value),
                          res |-> TypeEq(ty, vec_as_ref(a.value),
                                         vec_as_ref(b.value))]

-----------------------------------------------------------------------------
(* The secret types: which traits each construct_* macro gives its type.    *)
(* kind is "array" ([u8; $size]) or "vec" (Vec<u8>); debug is "omitted"     *)
(* (impl_omitted_debug_trait) or "normal" (impl_normal_debug_trait); drop   *)
(* says whether the type gets impl_drop_trait; ct as above.                 *)

\* constants.rs
SHA512_BLOCKSIZE == 128
SHA512_OUTSIZE == 64
BLAKE2B_BLOCKSIZE == 128
BLAKE2B_KEYSIZE == 64
BLAKE2B_OUTSIZE == 64

\* stringify!($name) of the types.
NameSecretKey == <<"S", "e", "c", "r", "e", "t", "K", "e", "y">>
NameTag == <<"T", "a", "g">>
NamePassword == <<"P", "a", "s", "s", "w", "o", "r", "d">>
NameNonce == <<"N", "o", "n", "c", "e">>
NameSalt == <<"S", "a", "l", "t">>

Newtypes ==
    { [macro |-> "construct_secret_key", name |-> NameSecretKey,
       kind |-> "array", size |-> CHACHA_KEYSIZE,
       debug |-> "omitted", drop |-> TRUE, ct |-> TRUE],
      [macro |-> "construct_nonce_no_generator", name |-> NameNonce,
       kind |-> "array", size |-> IETF_CHACHA_NONCESIZE,
       debug |-> "normal", drop |-> FALSE, ct |-> FALSE],
      [macro |-> "construct_tag", name |-> NameTag,
       kind |-> "array", size |-> POLY1305_OUTSIZE,
       debug |-> "omitted", drop |-> FALSE, ct |-> TRUE],
      [macro |-> "construct_hmac_key", name |-> NameSecretKey,
       kind |-> "array", size |-> SHA512_BLOCKSIZE,
       debug |-> "omitted", drop |-> TRUE, ct |-> TRUE],
      [macro |-> "construct_blake2b_key", name |-> NameSecretKey,
       kind |-> "array", size |-> BLAKE2B_BLOCKSIZE,
       debug |-> "omitted", drop |-> TRUE, ct |-> TRUE],
      [macro |-> "construct_secret_key_variable_size", name |-> NameSecretKey,
       kind |-> "vec", size |-> MaxVarLen,
       debug |-> "omitted", drop |-> TRUE, ct |-> TRUE],
      [macro |-> "construct_salt_variable_size", name |-> NameSalt,
       kind |-> "vec", size |-> MaxVarLen,
       debug |-> "normal", drop |-> FALSE, ct |-> FALSE],
      [macro |-> "construct_password_variable_size", name |-> NamePassword,
       kind |-> "vec", size |-> MaxVarLen,
       debug |-> "omitted", drop |-> TRUE, ct |-> TRUE] }

\* The byte contents a value of the type can have (for a Vec type of the
\* model, size is the longest vector built).
ValuesOf(ty) ==
    IF ty.kind = "array" THEN SlicesOfLen(ty.size)
    ELSE UNION {SlicesOfLen(len) : len \in 1..ty.size}

-----------------------------------------------------------------------------
(* Constant-time equality: the byte positions the comparison examines.      *)

\* subtle: the loop of <[u8]>::ct_eq, `for (ai, bi) in a.iter().zip(b.iter())`:
\* the positions it visits from index i on, one iteration for each pair of
\* the zip.  The loop has no exit but the end of the shorter slice.
ct_eq_loop_positions(a, b, i) ==
    [k \in 1..(Min(Len(a), Len(b)) - i + 1) |-> i + k - 1]

\* A comparison that stops at the first mismatch, as memcmp does: the
\* positions up to it.
EarlyExitPositions(a, b, i) ==
    LET n == Min(Len(a), Len(b))
        mismatches == {k \in i..n : a[k] # b[k]}
        last == IF mismatches = {} THEN n
                ELSE CHOOSE k \in mismatches : \A m \in mismatches : k <= m
    IN [k \in 1..(last - i + 1) |-> i + k - 1]

\* A mutant of ct_eq_positions: the loop left at the first mismatch.
EarlyExitMutant(a, b) ==
    IF Len(a) # Len(b) THEN <<>> ELSE EarlyExitPositions(a, b, 1)

\* subtle: the positions <[u8] as ConstantTimeEq>::ct_eq examines, as called
\* in impl_ct_partialeq_trait: none for slices of different lengths.
ct_eq_positions(a, b) ==
    IF Len(a) # Len(b) THEN <<>> ELSE ct_eq_loop_positions(a, b, 1)

\* a == b on two values of a type with impl_ct_partialeq_trait.
CtEqSecret ==
    /\ ty_call.op = "none"
    /\ \E ty \in {t \in Newtypes : t.ct} :
       \E a \in ValuesOf(ty), b \in ValuesOf(ty) :
          ty_call' = [op |-> "ct_eq", ty |-> ty, a |-> a, b |-> b,
                      res |-> impl_ct_partialeq_trait(a, b),
                      examined |-> ct_eq_positions(a, b)]

-----------------------------------------------------------------------------
(* Debug formatting.  A formatted string is the sequence of its characters. *)

Digits == <<"0", "1", "2", "3", "4", "5", "6", "7", "8", "9">>

\* core::fmt: a u8 under {:?}, in decimal without leading zeros.
fmt_u8(n) ==
    IF n < 10 THEN <<Digits[n + 1]>>
    ELSE IF n < 100 THEN <<Digits[(n \div 10) + 1], Digits[(n % 10) + 1]>>
    ELSE <<Digits[(n \div 100) + 1], Digits[((n \div 10) % 10) + 1],
           Digits[(n % 10) + 1]>>

\* The items lo..hi of a slice, separated by ", " (taken in two halves, which
\* keeps the evaluation shallow on long slices).
RECURSIVE fmt_items(_, _, _)
fmt_items(bytes, lo, hi) ==
    IF lo > hi THEN <<>>
    ELSE IF lo = hi THEN fmt_u8(bytes[lo])
    ELSE fmt_items(bytes, lo, (lo + hi) \div 2) \o <<",", " ">>
            \o fmt_items(bytes, ((lo + hi) \div 2) + 1, hi)

\* core::fmt: a &[u8] under {:?}: "[1, 2, 3]"
fmt_slice(bytes) == <<"[">> \o fmt_items(bytes, 1, Len(bytes)) \o <<"]">>

\* The literal " {***OMITTED***}" of the format string.
OmittedPlaceholder ==
    <<" ", "{", "*", "*", "*", "O", "M", "I", "T", "T", "E", "D",
      "*", "*", "*", "}">>

\* impl_normal_debug_trait!: write!(f, "{} {:?}", stringify!($name), &self.value[..])
impl_normal_debug_trait(name, value) == name \o <<" ">> \o fmt_slice(value)

\* A mutant of impl_omitted_debug_trait: the format string of the normal
\* Debug.
DebugWithValueMutant(name, value) == impl_normal_debug_trait(name, value)

\* impl_omitted_debug_trait!: write!(f, "{} {{***OMITTED***}}", stringify!($name))
impl_omitted_debug_trait(name, value) == name \o OmittedPlaceholder

\* Debug::fmt of a type.
TypeDebug(ty, value) ==
    IF ty.debug = "omitted" THEN impl_omitted_debug_trait(ty.name, value)
    ELSE impl_normal_debug_trait(ty.name, value)

\* str::contains
Contains(hay, needle) ==
    \E k \in 0..(Len(hay) - Len(needle)) :
        \A j \in 1..Len(needle) : hay[k + j] = needle[j]

\* format!("{:?}", a) and format!("{:?}", b) for two values of one type.
DebugFmt ==
    /\ ty_call.op = "none"
    /\ \E ty \in Newtypes : \E a \in ValuesOf(ty), b \in ValuesOf(ty) :
          ty_call' = [op |-> "debug", ty |-> ty, a |-> a, b |-> b,
                      out_a |-> TypeDebug(ty, a), out_b |-> TypeDebug(ty, b)]

-----------------------------------------------------------------------------
(* Destruction.  The storage of a value is the bytes of its array or of its *)
(* vector's allocation; releasing it leaves the bytes as they are.          *)

\* A mutant of impl_drop_trait: Drop without the zeroize call.
DropWithoutZeroizeMutant(value) == value

\* impl_drop_trait!: self.value.zeroize(), every byte of the array or of the
\* vector's buffer written with 0 (a vector is then cleared, which changes
\* its length, not its buffer).
impl_drop_trait(value) == [i \in 1..Len(value) |-> 0]

\* The ways a scope that owns a value is left: at its end, by an early return
\* (`?` or return Err) or by a panic that unwinds.  Each runs Drop.
ScopeExits == {"end_of_scope", "early_return", "unwind"}

\* A value of a type exists, built by from_slice or generate.
NewValue ==
    /\ ty_call.op = "none"
    /\ \E ty \in Newtypes : \E value \in ValuesOf(ty) :
          ty_call' = [op |-> "live", ty |-> ty, value |-> value]

\* The value goes out of scope: Drop::drop if the type has it, then the
\* storage is released.
DropValue ==
    /\ ty_call.op = "live"
    /\ \E exit \in ScopeExits :
          ty_call' = [op |-> "released", ty |-> ty_call.ty, exit |-> exit,
                      owned |-> ty_call.value,
                      storage |-> IF ty_call.ty.drop
                                  THEN impl_drop_trait(ty_call.value)
                                  ELSE ty_call.value]

-----------------------------------------------------------------------------
(* The key builders and the digest type. *)

\* array[..Len(bytes)].copy_from_slice(bytes) on a zeroed array of `size`
\* bytes: bytes left-aligned, the rest 0.  (Callers make sure that
\* Len(bytes) <= size.)
PadTo(size, bytes) ==
    [i \in 1..size |-> IF i <= Len(bytes) THEN bytes[i] ELSE 0]

\* Outcomes of the hash collaborator: hasher.ok says whether it succeeds.
Hashers == {[ok |-> TRUE], [ok |-> FALSE]}

\* What the stand-in for SHA-512 reads of its input: the length, the first
\* two bytes and the last byte.
DigestSeed(slice) ==
    IF Len(slice) < 2 THEN 31 * Len(slice)
    ELSE 31 * Len(slice) + slice[1] + 3 * slice[2] + 5 * slice[Len(slice)]

\* sha512::digest(slice), the hash collaborator: a Result holding
\* SHA512_OUTSIZE bytes that depend on the input only (a stand-in for
\* SHA-512, none of whose bytes is zero).
sha512_digest(slice, hasher) ==
    IF ~hasher.ok THEN Err
    ELSE Ok([i \in 1..SHA512_OUTSIZE |->
                1 + ((DigestSeed(slice) + 7 * i) % 255)])

\* A mutant of hmac_from_slice: `>=` for `>`, a key of exactly $size bytes
\* is hashed.
HmacFromSliceMutant(size, slice, hasher) ==
    IF Len(slice) >= size
    THEN LET d == sha512_digest(slice, hasher)
         IN IF d.tag = "Err" THEN Err ELSE Ok(PadTo(size, d.value))
    ELSE Ok(PadTo(size, slice))

\* construct_hmac_key!: from_slice
hmac_from_slice(size, slice, hasher) ==
    IF Len(slice) > size
    THEN LET d == sha512_digest(slice, hasher)
         IN IF d.tag = "Err" THEN Err ELSE Ok(PadTo(size, d.value))
    ELSE Ok(PadTo(size, slice))

\* A mutant of blake2b_from_slice: the limit is $size, not 64.
Blake2bFromSliceMutant(size, slice) ==
    IF Len(slice) > size \/ Len(slice) = 0 THEN Err
    ELSE Ok([value |-> PadTo(size, SubSeq(slice, 1, Min(Len(slice), size))),
             original_size |-> Len(slice)])

\* construct_blake2b_key!: from_slice
blake2b_from_slice(size, slice) ==
    IF Len(slice) > 64 \/ Len(slice) = 0 THEN Err
    ELSE Ok([value |-> PadTo(size, slice), original_size |-> Len(slice)])

\* A mutant of blake2b_generate: the whole of `value` is filled with random
\* bytes.
Blake2bGenerateMutant(size, rng) ==
    IF ~rng.ok THEN Err
    ELSE Ok([value |-> [i \in 1..size |-> (rng.seed + i) % 256],
             original_size |-> 64])

\* construct_blake2b_key!: generate.  util::secure_rand_bytes fills
\* value[..64] (here: with the bytes rng.seed + 1, rng.seed + 2, ...) or
\* returns Err.
blake2b_generate(size, rng) ==
    IF ~rng.ok THEN Err
    ELSE Ok([value |-> [i \in 1..size |->
                           IF i <= 64 THEN (rng.seed + i) % 256 ELSE 0],
             original_size |-> 64])

\* construct_blake2b_key!: PartialEq::eq, ct_eq over unprotected_as_bytes()
blake2b_eq(x, y) ==
    impl_ct_partialeq_trait(func_unprotected_as_bytes(x.value),
                            func_unprotected_as_bytes(y.value))

\* construct_blake2b_key!: get_original_length
get_original_length(k) == k.original_size

\* construct_digest!: from_slice
digest_from_slice(size, slice) ==
    IF Len(slice) = 0 \/ Len(slice) > size THEN Err
    ELSE Ok([value |-> PadTo(size, slice), digest_size |-> Len(slice)])

\* A mutant of digest_as_bytes: the whole storage.
DigestAsBytesMutant(d) == d.value

\* construct_digest!: as_bytes, self.value[..self.digest_size]
digest_as_bytes(d) == SubSeq(d.value, 1, d.digest_size)

\* construct_digest!: get_length
digest_get_length(d) == d.digest_size

\* A mutant of digest_eq: the comparison is over the storage.
DigestEqStorageMutant(x, y) == ct_eq(x.value, y.value) = 1

\* construct_digest!: PartialEq::eq, ct_eq over as_bytes()
digest_eq(x, y) == ct_eq(digest_as_bytes(x), digest_as_bytes(y)) = 1

\* Slices for the builders: the lengths around `size`, short ones, and for
\* each slice that ends in a non-zero byte the slice followed by a 0.
BuilderInputs(size) ==
    FixedInputs(size) \cup VariableInputs
        \cup {s \o <<0>> : s \in {t \in VariableInputs : Len(t) < MaxVarLen}}

\* $name::from_slice(slice) of the HMAC key type.
FromSliceHmac ==
    /\ ty_call.op = "none"
    /\ \E slice \in BuilderInputs(SHA512_BLOCKSIZE), hasher \in Hashers :
          ty_call' = [op |-> "from_slice_hmac", size |-> SHA512_BLOCKSIZE,
                      slice |-> slice, hasher |-> hasher,
                      res |-> hmac_from_slice(SHA512_BLOCKSIZE, slice, hasher)]

\* $name::from_slice(slice) of the BLAKE2b key type.
FromSliceBlake2b ==
    /\ ty_call.op = "none"
    /\ \E slice \in BuilderInputs(BLAKE2B_KEYSIZE)
                        \cup FixedInputs(BLAKE2B_BLOCKSIZE) :
          ty_call' = [op |-> "from_slice_blake2b", size |-> BLAKE2B_BLOCKSIZE,
                      slice |-> slice,
                      res |-> blake2b_from_slice(BLAKE2B_BLOCKSIZE, slice)]

\* $name::generate() of the BLAKE2b key type.
GenerateBlake2b ==
    /\ ty_call.op = "none"
    /\ \E rng \in Rngs :
          ty_call' = [op |-> "generate_blake2b", size |-> BLAKE2B_BLOCKSIZE,
                      rng |-> rng,
                      res |-> blake2b_generate(BLAKE2B_BLOCKSIZE, rng)]

\* x == y for two BLAKE2b keys built by from_slice.
EqBlake2b ==
    /\ ty_call.op = "none"
    /\ \E sx \in BuilderInputs(BLAKE2B_KEYSIZE),
          sy \in BuilderInputs(BLAKE2B_KEYSIZE) :
        LET x == blake2b_from_slice(BLAKE2B_BLOCKSIZE, sx)
            y == blake2b_from_slice(BLAKE2B_BLOCKSIZE, sy)
        IN /\ x.tag = "Ok"
           /\ y.tag = "Ok"
           /\ ty_call' = [op |-> "eq_blake2b", sx |-> sx, sy |-> sy,
                          x |-> x.value, y |-> y.value,
                          res |-> blake2b_eq(x.value, y.value)]

\* $name::from_slice(slice) of the digest type.
FromSliceDigest ==
    /\ ty_call.op = "none"
    /\ \E slice \in BuilderInputs(BLAKE2B_OUTSIZE) :
          ty_call' = [op |-> "from_slice_digest", size |-> BLAKE2B_OUTSIZE,
                      slice |-> slice,
                      res |-> digest_from_slice(BLAKE2B_OUTSIZE, slice)]

\* x == y for two digests built by from_slice.
EqDigest ==
    /\ ty_call.op = "none"
    /\ \E sx \in BuilderInputs(BLAKE2B_OUTSIZE),
          sy \in BuilderInputs(BLAKE2B_OUTSIZE) :
        LET x == digest_from_slice(BLAKE2B_OUTSIZE, sx)
            y == digest_from_slice(BLAKE2B_OUTSIZE, sy)
        IN /\ x.tag = "Ok"
           /\ y.tag = "Ok"
           /\ ty_call' = [op |-> "eq_digest", x |-> x.value, y |-> y.value,
                          res |-> digest_eq(x.value, y.value)]

-----------------------------------------------------------------------------
(* hazardous/xof/cshake.rs.  A byte slice is held as a run [len, byte]: len *)
(* copies of one byte (the tests' [0u8; 65537]).  The Keccak sponge of      *)
(* tiny_keccak is held as the byte stream it has absorbed, a sequence of    *)
(* runs in which neighbours differ in their byte and no run is empty.      *)

\* A CShake state makes at most MaxCalls calls after init.
MaxCalls == 3

Run(len, byte) == [len |-> len, byte |-> byte]
EmptySlice == Run(0, 0)

\* Keccak::new(136, 0x04)
Keccak_new == [absorbed |-> <<>>]

\* Keccak::update(&run): the run joins the absorbed stream.
keccak_update(k, run) ==
    LET n == Len(k.absorbed)
    IN IF run.len = 0 THEN k
       ELSE IF n > 0 /\ k.absorbed[n].byte = run.byte
       THEN [absorbed |-> [k.absorbed EXCEPT ![n].len = @ + run.len]]
       ELSE [absorbed |-> Append(k.absorbed, run)]

\* Keccak::update(&bytes) for a sequence of bytes, from index i on.
RECURSIVE keccak_update_bytes(_, _, _)
keccak_update_bytes(k, bytes, i) ==
    IF i > Len(bytes) THEN k
    ELSE keccak_update_bytes(keccak_update(k, Run(1, bytes[i])), bytes, i + 1)

\* Number of bytes of a stream of runs, from run i on.
RECURSIVE StreamLen(_, _)
StreamLen(runs, i) ==
    IF i > Len(runs) THEN 0 ELSE runs[i].len + StreamLen(runs, i + 1)

\* Keccak::fill_block(): the block in progress is permuted as it is, which
\* is the stream continued with zeros up to the next multiple of the rate.
keccak_fill_block(k) ==
    keccak_update(k, Run(136 - (StreamLen(k.absorbed, 1) % 136), 0))

\* Keccak::finalize(dst_out): the sponge's output of dst_len bytes for the
\* absorbed stream.
keccak_finalize(k, dst_len) == [input |-> k.absorbed, len |-> dst_len]

\* u64::to_be_bytes, for x < 2^31 (x is at most 65536 * 8 here).
to_be_bytes(x) ==
    <<0, 0, 0, 0, (x \div 16777216) % 256, (x \div 65536) % 256,
      (x \div 256) % 256, x % 256>>

\* left_encode: `for idx in &input { if *idx != 0 { break; } tmp += 1; }`
RECURSIVE leading_zeros(_, _)
leading_zeros(input, i) ==
    IF i > Len(input) \/ input[i] # 0 THEN 0
    ELSE 1 + leading_zeros(input, i + 1)

\* left_encode(x): the array and the offset.
left_encode(x) ==
    LET input == <<0>> \o to_be_bytes(x)
        offset == IF x = 0 THEN 8 ELSE leading_zeros(input, 1)
    IN [encoded |-> [input EXCEPT ![offset] = 9 - offset], offset |-> offset]

\* &encoded[(offset - 1)..]
encoded_tail(le) == SubSeq(le.encoded, le.offset, 9)

\* A mutant of setup: `||` for `&&` in the test for empty strings.
SetupMutant(st, custom, name) ==
    IF name.len = 0 \/ custom.len = 0 THEN [res |-> "Err", st |-> st]
    ELSE IF name.len > 65536 \/ custom.len > 65536
    THEN [res |-> "Err", st |-> st]
    ELSE [res |-> "Ok", st |-> st]

\* CShake::setup
setup(st, custom, name) ==
    IF name.len = 0 /\ custom.len = 0 THEN [res |-> "Err", st |-> st]
    ELSE IF name.len > 65536 \/ custom.len > 65536
    THEN [res |-> "Err", st |-> st]
    ELSE LET h1 == keccak_update_bytes(st.hasher,
                                       encoded_tail(left_encode(136)), 1)
             h2 == keccak_update_bytes(h1,
                                       encoded_tail(left_encode(name.len * 8)), 1)
             h3 == keccak_update(h2, name)
             h4 == keccak_update_bytes(h3,
                                       encoded_tail(left_encode(custom.len * 8)), 1)
             h5 == keccak_update(h4, custom)
             h6 == keccak_fill_block(h5)
         IN [res |-> "Ok",
             st |-> [st EXCEPT !.hasher = h6, !.setup_hasher = h6]]

\* A mutant of reset: is_finalized is left as it is.
ResetMutant(st) == [st EXCEPT !.hasher = st.setup_hasher]

ResetKeepsHasherMutant(st) == [st EXCEPT !.is_finalized = FALSE]

\* CShake::reset
reset(st) == [st EXCEPT !.hasher = st.setup_hasher, !.is_finalized = FALSE]

\* CShake::update
update(st, data) ==
    IF st.is_finalized THEN [res |-> "Err", st |-> st]
    ELSE [res |-> "Ok", st |-> [st EXCEPT !.hasher = keccak_update(@, data)]]

\* A mutant of finalize: `>=` for `>` in the test of the output length.
FinalizeMutant(st, dst_len) ==
    IF st.is_finalized THEN [res |-> "Err", st |-> st, out |-> <<>>]
    ELSE IF dst_len = 0 \/ dst_len >= 65536
    THEN [res |-> "Err", st |-> [st EXCEPT !.is_finalized = TRUE],
          out |-> <<>>]
    ELSE [res |-> "Ok",
          st |-> [st EXCEPT !.is_finalized = TRUE, !.hasher = Keccak_new],
          out |-> keccak_finalize(st.hasher, dst_len)]

\* CShake::finalize on a dst_out of dst_len bytes; out is what is written to
\* dst_out (<<>>: nothing).
finalize(st, dst_len) ==
    IF st.is_finalized THEN [res |-> "Err", st |-> st, out |-> <<>>]
    ELSE IF dst_len = 0 \/ dst_len > 65536
    THEN [res |-> "Err", st |-> [st EXCEPT !.is_finalized = TRUE],
          out |-> <<>>]
    ELSE [res |-> "Ok",
          st |-> [st EXCEPT !.is_finalized = TRUE, !.hasher = Keccak_new],
          out |-> keccak_finalize(st.hasher, dst_len)]

\* cshake::init; name is [tag |-> "None"] or [tag |-> "Some", val |-> slice].
init(custom, name) ==
    LET name_val == IF name.tag = "Some" THEN name.val ELSE EmptySlice
        hash == [tag |-> "CShake", setup_hasher |-> Keccak_new,
                 hasher |-> Keccak_new, is_finalized |-> FALSE]
        r == setup(hash, custom, name_val)
    IN IF r.res = "Err" THEN Err ELSE Ok(r.st)

\* The strings init is called with and the data update is called with.
CustomStrings == {EmptySlice, Run(15, 69), Run(65536, 0), Run(65537, 0)}
NameStrings ==
    {[tag |-> "None"]}
        \cup {[tag |-> "Some", val |-> s] :
                s \in {EmptySlice, Run(15, 69), Run(65536, 0), Run(65537, 0)}}
UpdateData == {EmptySlice, Run(4, 1)}
\* Lengths of dst_out.
OutputLengths == {0, 1, 64, 65536, 65537}

CShakeIdle ==
    /\ cs = [tag |-> "none"]
    /\ cs_call = [op |-> "none"]
    /\ cs_hist = [calls |-> 0, finalize_called |-> FALSE,
                  fresh |-> [tag |-> "none"]]

\* let mut hash = cshake::init(custom, name)?
CsInit ==
    /\ cs.tag = "none"
    /\ cs_call.op = "none"
    /\ \E custom \in CustomStrings, name \in NameStrings :
        LET r == init(custom, name)
        IN /\ cs' = IF r.tag = "Ok" THEN r.value ELSE cs
           /\ cs_call' = [op |-> "init", custom |-> custom, name |-> name,
                          res |-> r.tag]
           /\ cs_hist' = [cs_hist EXCEPT !.fresh =
                              IF r.tag = "Ok" THEN r.value ELSE @]

\* hash.update(data)
CsUpdate ==
    /\ cs.tag = "CShake"
    /\ cs_hist.calls < MaxCalls
    /\ \E data \in UpdateData :
        LET r == update(cs, data)
        IN /\ cs' = r.st
           /\ cs_call' = [op |-> "update", data |-> data, res |-> r.res,
                          after |-> cs_call.op,
                          was_finalized |-> cs.is_finalized,
                          finalize_called_before |-> cs_hist.finalize_called]
    /\ cs_hist' = [cs_hist EXCEPT !.calls = @ + 1]

\* hash.finalize(&mut dst_out)
CsFinalize ==
    /\ cs.tag = "CShake"
    /\ cs_hist.calls < MaxCalls
    /\ \E dst_len \in OutputLengths :
        LET r == finalize(cs, dst_len)
        IN /\ cs' = r.st
           /\ cs_call' = [op |-> "finalize", dst_len |-> dst_len,
                          res |-> r.res, out |-> r.out,
                          before |-> cs,
                          after |-> cs_call.op,
                          was_finalized |-> cs.is_finalized,
                          finalize_called_before |-> cs_hist.finalize_called]
    /\ cs_hist' = [cs_hist EXCEPT !.calls = @ + 1, !.finalize_called = TRUE]

\* hash.reset()
CsReset ==
    /\ cs.tag = "CShake"
    /\ cs_hist.calls < MaxCalls
    /\ cs' = reset(cs)
    /\ cs_call' = [op |-> "reset", res |-> "Ok", after |-> cs_call.op]
    /\ cs_hist' = [cs_hist EXCEPT !.calls = @ + 1, !.finalize_called = FALSE]


-----------------------------------------------------------------------------
(* Single calls of the methods of InternalState, chacha.rs lines 40-124,   *)
(* on the states and arguments of the unit tests, lines 176-330.           *)

\* A ChaChaState from the sequence of its 16 words.
StateOf(words) == [i \in 0..15 |-> words[i + 1]]

\* The states of test_quarter_round_results and
\* test_quarter_round_results_on_indices.
QuarterRoundState1 ==
    StateOf(<<
      <<4369, 4369>>, <<258, 772>>, <<39821, 28483>>, <<291, 17767>>,
      <<4369, 4369>>, <<258, 772>>, <<39821, 28483>>, <<291, 17767>>,
      <<4369, 4369>>, <<258, 772>>, <<39821, 28483>>, <<291, 17767>>,
      <<4369, 4369>>, <<258, 772>>, <<39821, 28483>>, <<291, 17767>>>>)
QuarterRoundState2 ==
    StateOf(<<
      <<34709, 12768>>, <<50668, 62333>>, <<20836, 25009>>, <<51622, 12170>>,
      <<17602, 3827>>, <<13200, 44927>>, <<55804, 26891>>, <<10847, 29004>>,
      <<21303, 10087>>, <<45066, 22065>>, <<38732, 21530>>, <<13726, 39267>>,
      <<23703, 4193>>, <<15715, 5769>>, <<8344, 55766>>, <<37339, 54048>>>>)

\* expected_state of chacha20_block_test_1 and chacha20_block_test_2.
BlockState1 ==
    StateOf(<<
      <<44512, 47222>>, <<36925, 61856>>, <<58730, 23872>>, <<10429, 34387>>,
      <<47129, 53949>>, <<6893, 36256>>, <<52463, 13992>>, <<50957, 30603>>,
      <<31833, 16858>>, <<36168, 22353>>, <<16352, 9335>>, <<14154, 55480>>,
      <<62648, 17258>>, <<7329, 6165>>, <<27062, 34755>>, <<34405, 61106>>>>)
BlockState2 ==
    StateOf(<<
      <<48871, 1951>>, <<31288, 20821>>, <<31895, 47768>>, <<3336, 11635>>,
      <<41001, 4043>>, <<26981, 58184>>, <<15955, 50706>>, <<60794, 60978>>,
      <<30241, 46889>>, <<17230, 59036>>, <<45107, 29141>>, <<54585, 55412>>,
      <<10271, 60721>>, <<17915, 2641>>, <<7946, 57772>>, <<28493, 31051>>>>)

\* A state with every bit set.
OnesState == [i \in 0..15 |-> <<65535, 65535>>]

\* The index tuples quarter_round is called with: the columns and the
\* diagonals of process_inner_block, and the rows of the unit test.
QuarterRoundIndices ==
    {<<0, 4, 8, 12>>, <<1, 5, 9, 13>>, <<2, 6, 10, 14>>, <<3, 7, 11, 15>>,
     <<0, 5, 10, 15>>, <<1, 6, 11, 12>>, <<2, 7, 8, 13>>, <<3, 4, 9, 14>>,
     <<0, 1, 2, 3>>, <<4, 5, 6, 7>>, <<8, 9, 10, 11>>, <<12, 13, 14, 15>>}

StateValues ==
    {ZeroState, OnesState, QuarterRoundState1, QuarterRoundState2,
     BlockState1, BlockState2}

\* What the matrix may hold before init_chacha20_state / chacha20_block.
PreviousStates == {ZeroState, QuarterRoundState2}

\* dst_block of serialize_state: 0, 63, 64 and 65 bytes, zero or 0xAA.
SerializeDsts ==
    {ZeroBytes(len) : len \in {0, 63, 64, 65}}
        \cup {DstOf(len) : len \in {63, 64, 65}}

StateIdle == state_call = [op |-> "none"]

\* chacha_state.quarter_round(x, y, z, w)
QuarterRound ==
    /\ state_call.op = "none"
    /\ \E before \in StateValues, idx \in QuarterRoundIndices :
        state_call' = [op |-> "quarter_round", before |-> before,
                       x |-> idx[1], y |-> idx[2], z |-> idx[3], w |-> idx[4],
                       buffer |-> quarter_round(before, idx[1], idx[2],
                                                idx[3], idx[4])]

\* chacha_state.init_chacha20_state(key, nonce, block_count)
InitState ==
    /\ state_call.op = "none"
    /\ \E previous \in PreviousStates, kn \in KeyNoncePairs,
          block_count \in InitialCounters :
        LET r == init_chacha20_state(previous, kn[1], kn[2], block_count,
                                     target_endian)
        IN state_call' = [op |-> "init_chacha20_state",
                          before |-> previous, key |-> kn[1],
                          nonce |-> kn[2], block_count |-> block_count,
                          res |-> r.tag, buffer |-> r.buffer]

\* chacha_state.chacha20_block(key, nonce, block_count)
Block ==
    /\ state_call.op = "none"
    /\ \E previous \in PreviousStates, kn \in KeyNoncePairs,
          block_count \in InitialCounters :
        LET r == chacha20_block(previous, kn[1], kn[2], block_count,
                                target_endian)
        IN state_call' = [op |-> "chacha20_block",
                          before |-> previous, key |-> kn[1],
                          nonce |-> kn[2], block_count |-> block_count,
                          res |-> r.tag, buffer |-> r.buffer]

\* chacha_state.serialize_state(&mut dst_block)
Serialize ==
    /\ state_call.op = "none"
    /\ \E buffer \in StateValues, dst_block \in SerializeDsts :
        LET r == serialize_state(buffer, dst_block)
        IN state_call' = [op |-> "serialize_state", before |-> buffer,
                          buffer |-> buffer, dst_before |-> dst_block,
                          res |-> r.tag, dst_block |-> r.dst_block]

Init == ChaChaInit /\ CounterIdle /\ TypesIdle /\ CShakeIdle /\ StateIdle

Next ==
    \/ Encrypt /\ UNCHANGED <<counter_vars, types_vars, cshake_vars, state_vars>>
    \/ Decrypt /\ UNCHANGED <<counter_vars, types_vars, cshake_vars, state_vars>>
    \/ DecryptOutput /\ UNCHANGED <<counter_vars, types_vars, cshake_vars, state_vars>>

Spec == Init /\ [][Next]_vars

NextCounter ==
    \/ CounterStart /\ UNCHANGED <<chacha_vars, types_vars, cshake_vars, state_vars>>
    \/ CounterStep /\ UNCHANGED <<chacha_vars, types_vars, cshake_vars, state_vars>>
    \/ CounterRun /\ UNCHANGED <<chacha_vars, types_vars, cshake_vars, state_vars>>
    \/ CounterReturn /\ UNCHANGED <<chacha_vars, types_vars, cshake_vars, state_vars>>

SpecCounter == Init /\ [][NextCounter]_vars

NextTypes ==
    \/ FromSlice /\ UNCHANGED <<chacha_vars, counter_vars, cshake_vars, state_vars>>
    \/ FromSliceVariable /\ UNCHANGED <<chacha_vars, counter_vars, cshake_vars, state_vars>>
    \/ GenerateVariable /\ UNCHANGED <<chacha_vars, counter_vars, cshake_vars, state_vars>>
    \/ EqFixed /\ UNCHANGED <<chacha_vars, counter_vars, cshake_vars, state_vars>>
    \/ EqVariable /\ UNCHANGED <<chacha_vars, counter_vars, cshake_vars, state_vars>>

SpecTypes == Init /\ [][NextTypes]_vars

NextSecrets ==
    \/ CtEqSecret /\ UNCHANGED <<chacha_vars, counter_vars, cshake_vars, state_vars>>
    \/ DebugFmt /\ UNCHANGED <<chacha_vars, counter_vars, cshake_vars, state_vars>>
    \/ NewValue /\ UNCHANGED <<chacha_vars, counter_vars, cshake_vars, state_vars>>
    \/ DropValue /\ UNCHANGED <<chacha_vars, counter_vars, cshake_vars, state_vars>>
    \/ FromSliceHmac /\ UNCHANGED <<chacha_vars, counter_vars, cshake_vars, state_vars>>
    \/ FromSliceBlake2b /\ UNCHANGED <<chacha_vars, counter_vars, cshake_vars, state_vars>>
    \/ GenerateBlake2b /\ UNCHANGED <<chacha_vars, counter_vars, cshake_vars, state_vars>>
    \/ EqBlake2b /\ UNCHANGED <<chacha_vars, counter_vars, cshake_vars, state_vars>>
    \/ FromSliceDigest /\ UNCHANGED <<chacha_vars, counter_vars, cshake_vars, state_vars>>
    \/ EqDigest /\ UNCHANGED <<chacha_vars, counter_vars, cshake_vars, state_vars>>

SpecSecrets == Init /\ [][NextSecrets]_vars

NextCShake ==
    \/ CsInit /\ UNCHANGED <<chacha_vars, counter_vars, types_vars, state_vars>>
    \/ CsUpdate /\ UNCHANGED <<chacha_vars, counter_vars, types_vars, state_vars>>
    \/ CsFinalize /\ UNCHANGED <<chacha_vars, counter_vars, types_vars, state_vars>>
    \/ CsReset /\ UNCHANGED <<chacha_vars, counter_vars, types_vars, state_vars>>

SpecCShake == Init /\ [][NextCShake]_vars

NextState ==
    \/ QuarterRound /\ UNCHANGED <<chacha_vars, counter_vars, types_vars, cshake_vars>>
    \/ InitState /\ UNCHANGED <<chacha_vars, counter_vars, types_vars, cshake_vars>>
    \/ Block /\ UNCHANGED <<chacha_vars, counter_vars, types_vars, cshake_vars>>
    \/ Serialize /\ UNCHANGED <<chacha_vars, counter_vars, types_vars, cshake_vars>>

SpecState == Init /\ [][NextState]_vars

-----------------------------------------------------------------------------
(* Properties of chacha20_encrypt / chacha20_decrypt. *)

ValidKeyAndNonce == Len(key) = 32 /\ Len(nonce) = 12

IsCall == entry \in {"encrypt", "decrypt"}

\* Two calls returned the same way and left the same output buffer.
SameResultAndOutput(x, y) == x.result = y.result /\ x.dst = y.dst

\* Number of 64-byte chunks of the input of the call.
NumChunks == (Len(plaintext) + 63) \div 64

\* Some chunk index i of the input has initial_counter + i >= 2^32.
CounterWouldOverflow ==
    /\ NumChunks >= 1
    /\ checked_add(initial_counter, U32(NumChunks - 1)).tag = "None"

\* C1: decrypting the output of a successful chacha20_encrypt with the same
\* key (32 bytes), nonce (12 bytes) and initial counter returns Ok and yields
\* exactly the message that was encrypted.
C1_DecryptOfEncrypt ==
    (entry = "decrypt_of_encrypt" /\ ValidKeyAndNonce)
        => (outcome.result = "Ok" /\ outcome.dst = message)

\* A 65-byte message (two chunks) came back from a ciphertext that differs
\* from it.
C1_Witness ==
    /\ entry = "decrypt_of_encrypt"
    /\ ValidKeyAndNonce
    /\ Len(message) = 65
    /\ plaintext # message
    /\ outcome.result = "Ok"
    /\ outcome.dst = message

\* C2: chacha20_encrypt and chacha20_decrypt called with buffers of different
\* lengths return Err and leave every byte of the output buffer unchanged.
C2_LengthMismatch ==
    (IsCall /\ Len(plaintext) # Len(dst_before))
        => (outcome.result = "Err" /\ outcome.dst = dst_before)

\* A 64-byte input with a 65-byte output buffer was refused.
C2_Witness ==
    /\ entry = "encrypt"
    /\ ValidKeyAndNonce
    /\ Len(plaintext) = 64
    /\ Len(dst_before) = 65
    /\ outcome.result = "Err"
    /\ outcome.dst = dst_before

\* C3: when initial_counter + i exceeds the 32-bit range for a chunk index i
\* of the input, the call returns an error value: it does not panic and does
\* not succeed with a wrapped counter.
C3_OverflowReturnsErr ==
    (IsCall /\ ValidKeyAndNonce /\ Len(plaintext) = Len(dst_before)
        /\ CounterWouldOverflow)
        => outcome.result = "Err"

\* C4: the call is all-or-nothing: either it succeeds with every chunk
\* processed, or it fails with the output buffer as it was before the call.
C4_AllOrNothing ==
    IsCall =>
        \/ outcome.result = "Ok" /\ Len(outcome.chunks) = NumChunks
        \/ outcome.result # "Ok" /\ outcome.dst = dst_before

\* C6: chacha20_decrypt is chacha20_encrypt: on the same key, nonce, initial
\* counter, input and output buffer it returns the same result and leaves the
\* same bytes in the output buffer.
C6_DecryptIsEncrypt ==
    entry = "decrypt"
        => SameResultAndOutput(outcome,
               chacha20_encrypt(key, nonce, initial_counter, plaintext,
                                dst_before, target_endian))

\* chacha20_decrypt processed a 65-byte input and changed the output buffer.
C6_Witness ==
    /\ entry = "decrypt"
    /\ Len(plaintext) = 65
    /\ outcome.result = "Ok"
    /\ outcome.dst # dst_before

-----------------------------------------------------------------------------
(* Properties of the counter loop. *)

\* C5: in a successful call the chunk with index i is processed with
\* chunk_counter = initial_counter + i, the mathematical sum (stated for the
\* last chunk, index cnt_chunks - 1), and so no later chunk uses the counter
\* of chunk 0 again.
C5_CounterIsSum ==
    (cnt_pc = "ok" /\ cnt_chunks # <<0, 0, 0, 0>>)
        => /\ USizeAdd(as_usize(cnt_last), USizeOne)
                = USizeAdd(as_usize(cnt_initial), cnt_chunks)
           /\ USizeLess(USizeOne, cnt_chunks) => cnt_last # cnt_first

-----------------------------------------------------------------------------
(* Properties of the newtypes. *)

\* C7: from_slice of a fixed-size type of size N succeeds iff the slice has
\* exactly N bytes; on success the stored bytes are the input and
\* get_length() is N.
C7_FromSliceFixed ==
    ty_call.op = "from_slice"
        => /\ ty_call.res.tag = "Ok" <=> Len(ty_call.slice) = ty_call.ty.size
           /\ ty_call.res.tag = "Ok"
                => /\ func_as_bytes(ty_call.res.value) = ty_call.slice
                   /\ func_get_length(ty_call.res.value) = ty_call.ty.size

\* A 32-byte secret key was built from a slice that is not all zero.
C7_Witness ==
    /\ ty_call.op = "from_slice"
    /\ ty_call.ty.size = CHACHA_KEYSIZE
    /\ ty_call.res.tag = "Ok"
    /\ ty_call.slice[CHACHA_KEYSIZE] = 255
    /\ func_as_bytes(ty_call.res.value) = ty_call.slice

C9_GenerateLengths ==
    ty_call.op = "generate_variable"
        => /\ (ty_call.length = <<0, 0, 0, 0>>
                \/ USizeLess(U32_MAX_AS_USIZE, ty_call.length))
                => ty_call.res.tag = "Err"
           /\ (~(ty_call.length = <<0, 0, 0, 0>>)
                /\ ~USizeLess(U32_MAX_AS_USIZE, ty_call.length)
                /\ ty_call.rng.ok)
                => /\ ty_call.res.tag = "Ok"
                   /\ func_get_length_variable(ty_call.res.value)
                        = ty_call.length

\* C10: == on two values of a type with constant-time equality is true iff
\* their byte contents are identical (same length and same bytes).
C10_EqIffSameBytes ==
    (ty_call.op = "eq" /\ ty_call.ty.ct)
        => (ty_call.res <=> ty_call.a = ty_call.b)

\* Two 32-byte keys that differ only in their last byte compared unequal.
C10_Witness ==
    /\ ty_call.op = "eq"
    /\ ty_call.ty.ct
    /\ Len(ty_call.a) = CHACHA_KEYSIZE
    /\ Len(ty_call.b) = CHACHA_KEYSIZE
    /\ \A i \in 1..(CHACHA_KEYSIZE - 1) : ty_call.a[i] = ty_call.b[i]
    /\ ty_call.a[CHACHA_KEYSIZE] # ty_call.b[CHACHA_KEYSIZE]
    /\ ty_call.res = FALSE

-----------------------------------------------------------------------------
(* Properties of the secret types. *)

C13_DebugOmitsValue ==
    (ty_call.op = "debug" /\ ty_call.ty.debug = "omitted")
        => /\ ty_call.out_a = ty_call.out_b
           /\ ty_call.out_a = ty_call.ty.name \o OmittedPlaceholder
           /\ ~Contains(ty_call.out_a, fmt_slice(ty_call.a))
           /\ ~Contains(ty_call.out_b, fmt_slice(ty_call.b))

\* Two different 32-byte secret keys were formatted to the same string.
C13_Witness ==
    /\ ty_call.op = "debug"
    /\ ty_call.ty.macro = "construct_secret_key"
    /\ ty_call.a # ty_call.b
    /\ ty_call.out_a = ty_call.out_b
    /\ ty_call.out_a = NameSecretKey \o OmittedPlaceholder

\* C14: HMAC key from_slice does not fail on account of the input length; for
\* an input of at most $size bytes the key is the input followed by zeros,
\* for a longer input it is digest(input) followed by zeros; get_length() is
\* $size.
C14_HmacFromSlice ==
    ty_call.op = "from_slice_hmac"
        => /\ ty_call.res.tag = "Err"
                <=> (Len(ty_call.slice) > ty_call.size /\ ~ty_call.hasher.ok)
           /\ ty_call.res.tag = "Ok"
                => /\ func_get_length(ty_call.res.value) = ty_call.size
                   /\ Len(ty_call.slice) <= ty_call.size
                        => ty_call.res.value
                            = ty_call.slice
                                \o ZeroBytes(ty_call.size - Len(ty_call.slice))
                   /\ Len(ty_call.slice) > ty_call.size
                        => ty_call.res.value
                            = sha512_digest(ty_call.slice, ty_call.hasher).value
                                \o ZeroBytes(ty_call.size - SHA512_OUTSIZE)

\* A key of $size + 1 bytes was replaced by its digest.
C14_Witness ==
    /\ ty_call.op = "from_slice_hmac"
    /\ Len(ty_call.slice) = SHA512_BLOCKSIZE + 1
    /\ ty_call.res.tag = "Ok"
    /\ SubSeq(ty_call.res.value, 1, SHA512_OUTSIZE)
        = sha512_digest(ty_call.slice, ty_call.hasher).value
    /\ SubSeq(ty_call.res.value, 1, SHA512_OUTSIZE)
        # SubSeq(ty_call.slice, 1, SHA512_OUTSIZE)

\* C15: BLAKE2b key from_slice fails iff the input is empty or longer than 64
\* bytes; on success the stored bytes are the input followed by zeros and
\* get_original_length() is the input length.
C15_Blake2bFromSlice ==
    ty_call.op = "from_slice_blake2b"
        => /\ ty_call.res.tag = "Err"
                <=> (Len(ty_call.slice) = 0 \/ Len(ty_call.slice) > 64)
           /\ ty_call.res.tag = "Ok"
                => /\ func_unprotected_as_bytes(ty_call.res.value.value)
                        = ty_call.slice
                            \o ZeroBytes(ty_call.size - Len(ty_call.slice))
                   /\ get_original_length(ty_call.res.value)
                        = Len(ty_call.slice)

\* A key was built from 64 bytes that are not all zero.
C15_Witness ==
    /\ ty_call.op = "from_slice_blake2b"
    /\ Len(ty_call.slice) = 64
    /\ ty_call.slice[64] = 255
    /\ ty_call.res.tag = "Ok"
    /\ get_original_length(ty_call.res.value) = 64
    /\ ty_call.res.value.value[65] = 0

\* C16: Digest from_slice succeeds iff 1 <= input length <= $size; on success
\* as_bytes() is the input and get_length() is the input length.
C16_DigestFromSlice ==
    ty_call.op = "from_slice_digest"
        => /\ ty_call.res.tag = "Ok"
                <=> (1 <= Len(ty_call.slice) /\ Len(ty_call.slice) <= ty_call.size)
           /\ ty_call.res.tag = "Ok"
                => /\ digest_as_bytes(ty_call.res.value) = ty_call.slice
                   /\ digest_get_length(ty_call.res.value) = Len(ty_call.slice)

\* A digest shorter than its storage was built.
C16_Witness ==
    /\ ty_call.op = "from_slice_digest"
    /\ Len(ty_call.slice) = BLAKE2B_OUTSIZE - 1
    /\ ty_call.res.tag = "Ok"
    /\ digest_as_bytes(ty_call.res.value) = ty_call.slice
    /\ digest_get_length(ty_call.res.value) = BLAKE2B_OUTSIZE - 1

\* C17: two digests compare equal iff they have the same digest_size and the
\* same first digest_size bytes; the storage beyond digest_size does not
\* count, and digests of different digest_size are not equal.
C17_DigestEq ==
    ty_call.op = "eq_digest"
        => (ty_call.res
              <=> /\ ty_call.x.digest_size = ty_call.y.digest_size
                  /\ \A i \in 1..ty_call.x.digest_size :
                        ty_call.x.value[i] = ty_call.y.value[i])

\* Two digests with the same storage and different digest_size compared
\* unequal.
C17_Witness ==
    /\ ty_call.op = "eq_digest"
    /\ ty_call.x.value = ty_call.y.value
    /\ ty_call.x.digest_size # ty_call.y.digest_size
    /\ ty_call.res = FALSE

-----------------------------------------------------------------------------
(* Properties of CShake. *)

\* C18: on a state from a successful init, update returns an error exactly
\* when finalize has been called since the last init or reset; a finalize
\* after a finalize with no reset between returns an error; and right after
\* a reset, update and finalize with a valid output length succeed.
C18_FinalizedUntilReset ==
    /\ cs_call.op = "update"
        => (cs_call.res = "Err" <=> cs_call.finalize_called_before)
    /\ (cs_call.op = "finalize" /\ cs_call.finalize_called_before)
        => cs_call.res = "Err"
    /\ (cs_call.op = "update" /\ cs_call.after = "reset")
        => cs_call.res = "Ok"
    /\ (cs_call.op = "finalize" /\ cs_call.after = "reset"
            /\ cs_call.dst_len \in 1..65536)
        => cs_call.res = "Ok"

\* After finalize and reset, a third call, update, succeeded.
C18_Witness ==
    /\ cs_hist.calls = 3
    /\ cs_call.op = "update"
    /\ cs_call.after = "reset"
    /\ cs_call.res = "Ok"
    /\ cs_call.data.len > 0
    /\ cs.hasher # cs.setup_hasher

\* C19: init(custom, name) returns an error iff name and custom are both
\* empty (name = None is empty) or name or custom is longer than 65536
\* bytes; else it returns a state that is not finalized.
C19_InitErrors ==
    cs_call.op = "init"
        => LET name_len == IF cs_call.name.tag = "Some"
                           THEN cs_call.name.val.len ELSE 0
           IN /\ cs_call.res = "Err"
                   <=> \/ name_len = 0 /\ cs_call.custom.len = 0
                       \/ name_len > 65536
                       \/ cs_call.custom.len > 65536
              /\ cs_call.res = "Ok"
                   => (cs.tag = "CShake" /\ cs.is_finalized = FALSE)

\* init succeeded on an empty custom and a name of 65536 bytes.
C19_Witness ==
    /\ cs_call.op = "init"
    /\ cs_call.custom.len = 0
    /\ cs_call.name.tag = "Some"
    /\ cs_call.name.val.len = 65536
    /\ cs_call.res = "Ok"
    /\ cs.tag = "CShake"
    /\ cs.is_finalized = FALSE

\* C20: finalize on a state that is not finalized returns an error if
\* dst_out is empty or longer than 65536 bytes and succeeds for every length
\* from 1 to 65536.
C20_FinalizeLengths ==
    (cs_call.op = "finalize" /\ ~cs_call.was_finalized)
        => (cs_call.res = "Err"
              <=> (cs_call.dst_len = 0 \/ cs_call.dst_len > 65536))

\* finalize wrote 65536 bytes.
C20_Witness ==
    /\ cs_call.op = "finalize"
    /\ ~cs_call.was_finalized
    /\ cs_call.dst_len = 65536
    /\ cs_call.res = "Ok"
    /\ cs_call.out.len = 65536


\* update(x) followed by finalize(n) on the state st: the results of the two
\* calls and the bytes written.
UpdateThenFinalize(st, x, n) ==
    LET u == update(st, x)
        f == finalize(u.st, n)
    IN [update_res |-> u.res, finalize_res |-> f.res, out |-> f.out]

\* C21: reset returns the state to exactly the state init produced: after any
\* sequence of calls that ends in a reset, the state equals the one init
\* returned, and update(x) followed by finalize(n) gives the same results and
\* output as on a fresh init with the same custom and name.
C21_ResetIsInit ==
    cs_call.op = "reset"
        => /\ cs = cs_hist.fresh
           /\ \A x \in UpdateData, n \in OutputLengths :
                UpdateThenFinalize(cs, x, n)
                    = UpdateThenFinalize(cs_hist.fresh, x, n)

\* reset was called after data had been absorbed and squeezed out, and the
\* state is the initial one again.
C21_Witness ==
    /\ cs_call.op = "reset"
    /\ cs_call.after = "finalize"
    /\ cs_hist.calls = 3
    /\ cs = cs_hist.fresh
    /\ cs.hasher = cs.setup_hasher
    /\ cs.is_finalized = FALSE


-----------------------------------------------------------------------------
(* The methods of InternalState. *)

\* `expected` of chacha20_block_test_1, chacha20_block_test_2 and
\* test_chacha20_block_results: the published keystream blocks.
KeystreamZeroKeyCounter0 == <<
    118, 184, 224, 173, 160, 241, 61, 144, 64, 93, 106, 229, 83, 134, 189, 40,
    189, 210, 25, 184, 160, 141, 237, 26, 168, 54, 239, 204, 139, 119, 13, 199,
    218, 65, 89, 124, 81, 87, 72, 141, 119, 36, 224, 63, 184, 216, 74, 55,
    106, 67, 184, 244, 21, 24, 161, 28, 195, 135, 182, 105, 178, 238, 101, 134>>
KeystreamZeroKeyCounter1 == <<
    159, 7, 231, 190, 85, 81, 56, 122, 152, 186, 151, 124, 115, 45, 8, 13,
    203, 15, 41, 160, 72, 227, 101, 105, 18, 198, 83, 62, 50, 238, 122, 237,
    41, 183, 33, 118, 156, 230, 78, 67, 213, 113, 51, 176, 116, 216, 57, 213,
    49, 237, 31, 40, 81, 10, 251, 69, 172, 225, 10, 31, 75, 121, 77, 111>>
KeystreamRfc == <<
    16, 241, 231, 228, 209, 59, 89, 21, 80, 15, 221, 31, 163, 32, 113, 196,
    199, 209, 244, 199, 51, 192, 104, 3, 4, 34, 170, 154, 195, 212, 108, 78,
    210, 130, 100, 70, 7, 159, 170, 9, 20, 194, 215, 5, 217, 139, 2, 162,
    181, 18, 156, 209, 222, 22, 78, 185, 203, 208, 131, 232, 162, 80, 60, 78>>

\* expected of test_quarter_round_results_on_indices.
QuarterRoundExpected2 ==
    StateOf(<<
      <<34709, 12768>>, <<50668, 62333>>, <<48568, 34524>>, <<51622, 12170>>,
      <<17602, 3827>>, <<13200, 44927>>, <<55804, 26891>>, <<53164, 45010>>,
      <<58475, 60032>>, <<45066, 22065>>, <<38732, 21530>>, <<13726, 39267>>,
      <<23703, 4193>>, <<52416, 31865>>, <<8344, 55766>>, <<37339, 54048>>>>)

\* The four bytes at positions i .. i + 3 of b as a little-endian word.
LeWord(b, i) == <<b[i + 3] * 256 + b[i + 2], b[i + 1] * 256 + b[i]>>

\* Byte j (0 the least significant) of the word w.
ByteOf(w, j) ==
    CASE j = 0 -> w[2] % 256
      [] j = 1 -> w[2] \div 256
      [] j = 2 -> w[1] % 256
      [] j = 3 -> w[1] \div 256

\* The initialized state S0 of the ChaCha20 block function for a 32-byte
\* key, a 12-byte nonce and a counter: the four constants, the key as eight
\* little-endian words, the counter, the nonce as three little-endian words.
InitialState(k, n, counter) ==
    [i \in 0..15 |->
        CASE i = 0 -> <<24944, 30821>>
          [] i = 1 -> <<13088, 25710>>
          [] i = 2 -> <<31074, 11570>>
          [] i = 3 -> <<27424, 25972>>
          [] i \in 4..11 -> LeWord(k, 4 * (i - 4) + 1)
          [] i = 12 -> counter
          [] i \in 13..15 -> LeWord(n, 4 * (i - 13) + 1)]

\* One double round: the quarter round on the four columns, then on the four
\* diagonals.
ColumnsThenDiagonals ==
    << <<0, 4, 8, 12>>, <<1, 5, 9, 13>>, <<2, 6, 10, 14>>, <<3, 7, 11, 15>>,
       <<0, 5, 10, 15>>, <<1, 6, 11, 12>>, <<2, 7, 8, 13>>, <<3, 4, 9, 14>> >>

RECURSIVE QuarterRoundsFrom(_, _)
QuarterRoundsFrom(s, i) ==
    IF i > Len(ColumnsThenDiagonals) THEN s
    ELSE LET t == ColumnsThenDiagonals[i]
         IN QuarterRoundsFrom(quarter_round(s, t[1], t[2], t[3], t[4]), i + 1)

DoubleRound(s) == QuarterRoundsFrom(s, 1)

\* n double rounds; the test on DOMAIN makes TLC finish one double round
\* before it starts the next.
RECURSIVE DoubleRounds(_, _)
DoubleRounds(s, n) ==
    IF n = 0 \/ DOMAIN s # 0..15 THEN s
    ELSE DoubleRounds(DoubleRound(s), n - 1)

\* S10 + S0, word by word, modulo 2^32.
FeedForward(s10, s0) == [i \in 0..15 |-> wrapping_add(s10[i], s0[i])]

BlockOf(s0) == FeedForward(DoubleRounds(s0, 10), s0)

\* The 64 bytes of a state, each word least significant byte first.
BytesOf(s) == [j \in 1..64 |-> ByteOf(s[(j - 1) \div 4], (j - 1) % 4)]

\* C22: the block function computes the initialized state S0 of (key, nonce,
\* counter), applies exactly 10 double rounds (columns, then diagonals) and
\* adds S0 back word by word modulo 2^32; its result matches the published
\* keystream blocks for the all-zero key and nonce at counters 0 and 1 and
\* for the RFC 7539 vector.
C22_BlockFunction ==
    (state_call.op = "chacha20_block" /\ state_call.res = "Ok")
        => /\ state_call.buffer
                = BlockOf(InitialState(state_call.key, state_call.nonce,
                                       state_call.block_count))
           /\ (/\ state_call.key = KeyZero
               /\ state_call.nonce = NonceZero
               /\ state_call.block_count = <<0, 0>>)
                => BytesOf(state_call.buffer) = KeystreamZeroKeyCounter0
           /\ (/\ state_call.key = KeyZero
               /\ state_call.nonce = NonceZero
               /\ state_call.block_count = <<0, 1>>)
                => BytesOf(state_call.buffer) = KeystreamZeroKeyCounter1
           /\ (/\ state_call.key = KeyRfc
               /\ state_call.nonce = NonceRfc
               /\ state_call.block_count = <<0, 1>>)
                => BytesOf(state_call.buffer) = KeystreamRfc

\* C23: init_chacha20_state sets all 16 words whatever the matrix held
\* before: the constants 0x61707865, 0x3320646e, 0x79622d32, 0x6b206574,
\* the key as eight little-endian words, the counter in word 12 and the
\* nonce as three little-endian words, so that the result depends on (key,
\* nonce, counter) only.
C23_InitSetsAllWords ==
    (state_call.op = "init_chacha20_state" /\ state_call.res = "Ok")
        => state_call.buffer
              = InitialState(state_call.key, state_call.nonce,
                             state_call.block_count)

\* The twelve steps of the quarter round on the words a, b, c, d.
QuarterRoundSteps(a, b, c, d) ==
    LET a1 == wrapping_add(a, b)
        d1 == rotate_left(Xor32(d, a1), 16)
        c1 == wrapping_add(c, d1)
        b1 == rotate_left(Xor32(b, c1), 12)
        a2 == wrapping_add(a1, b1)
        d2 == rotate_left(Xor32(d1, a2), 8)
        c2 == wrapping_add(c1, d2)
        b2 == rotate_left(Xor32(b1, c2), 7)
    IN <<a2, b2, c2, d2>>

\* C24: quarter_round(a, b, c, d) performs a += b; d ^= a; d <<<= 16;
\* c += d; b ^= c; b <<<= 12; a += b; d ^= a; d <<<= 8; c += d; b ^= c;
\* b <<<= 7 in wraparound arithmetic on the four words it names, and leaves
\* the other 12 words unchanged.
C24_QuarterRound ==
    state_call.op = "quarter_round"
        => LET s == state_call.before
               r == QuarterRoundSteps(s[state_call.x], s[state_call.y],
                                      s[state_call.z], s[state_call.w])
           IN /\ state_call.buffer[state_call.x] = r[1]
              /\ state_call.buffer[state_call.y] = r[2]
              /\ state_call.buffer[state_call.z] = r[3]
              /\ state_call.buffer[state_call.w] = r[4]
              /\ \A i \in 0..15 \ {state_call.x, state_call.y,
                                   state_call.z, state_call.w} :
                    state_call.buffer[i] = s[i]

\* quarter_round(2, 7, 8, 13) on the state of RFC 7539, section 2.2.1, gave
\* the state the RFC prints.
C24_Witness ==
    /\ state_call.op = "quarter_round"
    /\ state_call.before = QuarterRoundState2
    /\ <<state_call.x, state_call.y, state_call.z, state_call.w>>
          = <<2, 7, 8, 13>>
    /\ state_call.buffer = QuarterRoundExpected2


\* C25: the scratch keystream block is all-zero after each chunk has been
\* written and before the next chunk is processed, and when the call ends,
\* on every exit path, the scratch block and the matrix are all-zero.
C25_ScratchZeroed ==
    (IsCall /\ Len(plaintext) = Len(dst_before))
        => /\ \A c \in 1..Len(outcome.chunks) :
                outcome.chunks[c].scratch_after = ZeroBytes(64)
           /\ outcome.keystream_block = ZeroBytes(64)
           /\ outcome.chacha_state = ZeroState

\* C26: a key that is not 32 bytes or a nonce that is not 12 bytes makes the
\* call return an error for every input length, the empty input included: it
\* never succeeds and never panics.
C26_InvalidLengthsReturnErr ==
    (IsCall /\ ~ValidKeyAndNonce) => outcome.result = "Err"

\* C27: serialize_state succeeds iff dst is exactly 64 bytes; on success
\* dst[4i .. 4i+3] is the little-endian encoding of word i for i = 0 .. 15,
\* on failure nothing has been changed.
C27_SerializeState ==
    state_call.op = "serialize_state"
        => /\ state_call.res = "Ok" <=> Len(state_call.dst_before) = 64
           /\ state_call.buffer = state_call.before
           /\ state_call.res = "Ok"
                => /\ Len(state_call.dst_block) = 64
                   /\ \A i \in 0..15, j \in 0..3 :
                        state_call.dst_block[4 * i + j + 1]
                            = ByteOf(state_call.before[i], j)
           /\ state_call.res = "Err"
                => state_call.dst_block = state_call.dst_before

\* The state of chacha20_block_test_1 was serialized over a 64-byte dst that
\* held 0xAA, and dst is the published keystream block.
C27_Witness ==
    /\ state_call.op = "serialize_state"
    /\ state_call.before = BlockState1
    /\ state_call.dst_before = DstOf(64)
    /\ state_call.res = "Ok"
    /\ state_call.dst_block = KeystreamZeroKeyCounter0


\* C28: every BLAKE2b key produced by from_slice or generate has
\* 1 <= get_original_length() <= 64; get_length() is the fixed padded size
\* of the storage; the stored bytes at an index >= the original length are
\* zero; generate records an original length of 64.
C28_Blake2bKeyLengths ==
    (ty_call.op \in {"from_slice_blake2b", "generate_blake2b"}
        /\ ty_call.res.tag = "Ok")
        => LET k == ty_call.res.value
           IN /\ 1 <= get_original_length(k)
              /\ get_original_length(k) <= 64
              /\ func_get_length(k.value) = ty_call.size
              /\ \A i \in 1..func_get_length(k.value) :
                    i > get_original_length(k)
                        => func_unprotected_as_bytes(k.value)[i] = 0
              /\ ty_call.op = "generate_blake2b"
                    => get_original_length(k) = 64

\* generate returned a key: 64 random bytes, then zeros up to 128.
C28_Witness ==
    /\ ty_call.op = "generate_blake2b"
    /\ ty_call.res.tag = "Ok"
    /\ get_original_length(ty_call.res.value) = 64
    /\ func_get_length(ty_call.res.value.value) = 128
    /\ ty_call.res.value.value[64] # 0
    /\ ty_call.res.value.value[65] = 0


\* C29: a finalize call that returns an error because dst_out is empty or
\* longer than 65536 bytes leaves the state unchanged: the state is still
\* not finalized, so that a following update or valid finalize succeeds
\* without a reset.
C29_FailedFinalizeKeepsState ==
    (/\ cs_call.op = "finalize"
     /\ ~cs_call.was_finalized
     /\ cs_call.res = "Err"
     /\ (cs_call.dst_len = 0 \/ cs_call.dst_len > 65536))
        => /\ cs = cs_call.before
           /\ cs.is_finalized = FALSE
           /\ \A data \in UpdateData : update(cs, data).res = "Ok"
           /\ \A dst_len \in OutputLengths :
                (1 <= dst_len /\ dst_len <= 65536)
                    => finalize(cs, dst_len).res = "Ok"

\* C30: two BLAKE2b keys built by from_slice compare equal iff they were
\* built from identical inputs; a key from s and a key from s followed by a
\* zero byte never compare equal.
C30_Blake2bEq ==
    ty_call.op = "eq_blake2b"
        => (ty_call.res <=> ty_call.sx = ty_call.sy)

=============================================================================
